---- MODULE Spec2Model ----
(***************************************************************************)
(* Model of benchmark/scenarios/read_request_load.py: RateMeasurer,        *)
(* LoadGenerator and ReadRequestLoadScenario running on one reactor.       *)
(*                                                                         *)
(* Time is counted in reactor ticks; TicksPerSecond ticks make one second  *)
(* of reactor.seconds().  A delayed call is stored as the tick at which it *)
(* is due (NoCall when there is none).  The reactor runs every call due at *)
(* the current tick before the clock moves on; calls due at the same tick  *)
(* run in any order.                                                       *)
(***************************************************************************)
EXTENDS Integers, Sequences, FiniteSets, TLC

\* ---------------------------------------------------------------- bounds
TicksPerSecond == 2     \* resolution of the model's clock
ExtraSeconds == 2       \* seconds explored after the window can be full
MaxStartDelay == 2      \* latest tick at which start() is called
MaxFaults == 2          \* requests of one run that do not succeed at once
MeasurerSeconds == 7    \* last second of the clock of a RateMeasurer alone
MaxPerSecond == 2       \* new_sample() calls made within one second

\* ------------------------------------------------------------- constants
DEFAULT_SAMPLE_SIZE == 5
\* loop_until polls once per step; one step is one tick of the model
PollStep == 1
NoCall == 0 - 1

VARIABLES
    request_rate,     \* ReadRequestLoadScenario.request_rate
    interval,         \* ReadRequestLoadScenario.interval (seconds)
    timeout,          \* ReadRequestLoadScenario.timeout (seconds)
    now,              \* the reactor's clock, in ticks
    rate_measurer,    \* [counts, count, last_second]
    loops,            \* LoadGenerator._loops with _starts: a sequence of records
    started,          \* start() has been called (load_generator exists)
    waiting,          \* state of waiting_for_target_rate, the result of start()
    pollCall,         \* delayed call of loop_until(reached_target_rate)
    timeoutCall,      \* delayed call of timeout()
    monitorCall,      \* delayed call of loop_until(scenario_collapsed)
    maintained_d,     \* self._maintained: [state, error, rate]
    stopResult,       \* outcome of the stop() call
    budget,           \* requests the service may fail or leave pending
    hist              \* history of the run, read by the properties only

vars == <<request_rate, interval, timeout, now, rate_measurer, loops, started,
          waiting, pollCall, timeoutCall, monitorCall, maintained_d, stopResult,
          budget, hist>>

config == <<request_rate, interval, timeout, budget>>

\* ----------------------------------------------------------- RateMeasurer
RECURSIVE Sum(_)
Sum(s) == IF s = <<>> THEN 0 ELSE Head(s) + Sum(Tail(s))

\* mutant: the window is never truncated
LastN_unbounded(s, n) == s

\* counts[-sample_size:]
LastN(s, n) == IF Len(s) <= n THEN s ELSE SubSeq(s, Len(s) - n + 1, Len(s))

\* int(self.reactor.seconds())
Seconds(t) == t \div TicksPerSecond

RateMeasurerInit(t) ==
    [counts |-> <<>>, count |-> 0, last_second |-> Seconds(t)]

\* mutant: the count of the second in progress is not reset on rollover
new_sample_no_reset(m, t) ==
    LET sec == Seconds(t)
        rolled == IF sec > m.last_second
                  THEN [counts |-> LastN(Append(m.counts, m.count), DEFAULT_SAMPLE_SIZE),
                        count |-> m.count,
                        last_second |-> sec]
                  ELSE m
    IN [rolled EXCEPT !.count = @ + 1]

new_sample(m, t) ==
    LET sec == Seconds(t)
        rolled == IF sec > m.last_second
                  THEN [counts |-> LastN(Append(m.counts, m.count), DEFAULT_SAMPLE_SIZE),
                        count |-> 0,
                        last_second |-> sec]
                  ELSE m
    IN [rolled EXCEPT !.count = @ + 1]

\* The float returned by rate(): nan, or the exact quotient sum / num.
NaN == [nan |-> TRUE, sum |-> 0, num |-> 1]

\* mutant: the mean of a window that is not full is returned
rate_partial(m) ==
    LET num_counts == Len(m.counts)
    IN IF num_counts > 0
       THEN [nan |-> FALSE, sum |-> Sum(m.counts), num |-> num_counts]
       ELSE NaN

rate(m) ==
    LET num_counts == Len(m.counts)
    IN IF num_counts = DEFAULT_SAMPLE_SIZE
       THEN [nan |-> FALSE, sum |-> Sum(m.counts), num |-> num_counts]
       ELSE NaN

\* float comparisons with an int; every comparison with nan is False
FloatGE(x, r) == ~x.nan /\ x.sum >= r * x.num
FloatLT(x, r) == ~x.nan /\ x.sum < r * x.num
FloatGT(x, r) == ~x.nan /\ x.sum > r * x.num
FloatLE(x, r) == ~x.nan /\ x.sum <= r * x.num

\* ---------------------------------------------------------- LoopingCall
Outcomes == {"ok", "fail", "pend"}

IntervalTicks == interval * TicksPerSecond

\* LoopingCall._scheduleFrom(when): the next multiple of the interval
\* after the loop's start time
scheduleFrom(l, when) ==
    when + (IntervalTicks - ((when - l.starttime) % IntervalTicks))

\* callback of LoopingCall.__call__ on the request's success
LoopCb(l, t) ==
    IF l.running
    THEN [l EXCEPT !.call = scheduleFrom(l, t)]
    ELSE [l EXCEPT !.started = "ok"]

\* errback of LoopingCall.__call__ on the request's failure
LoopEb(l) ==
    [l EXCEPT !.running = FALSE, !.started = "failed", !.reqFailed = TRUE]

\* mutant: the next call is scheduled without waiting for the request
LoopSettle_no_wait(l, o, t) ==
    CASE o = "ok" -> LoopCb([l EXCEPT !.inflight = FALSE], t)
      [] o = "fail" -> LoopEb([l EXCEPT !.inflight = FALSE])
      [] OTHER -> [l EXCEPT !.inflight = TRUE, !.call = scheduleFrom(l, t)]

\* the request has settled (o is "ok" or "fail") or is left pending
LoopSettle(l, o, t) ==
    CASE o = "ok" -> LoopCb([l EXCEPT !.inflight = FALSE], t)
      [] o = "fail" -> LoopEb([l EXCEPT !.inflight = FALSE])
      [] OTHER -> [l EXCEPT !.inflight = TRUE]

\* LoopingCall.__call__: the delayed call is consumed, the request issued
LoopCall(l, o, t) == LoopSettle([l EXCEPT !.call = NoCall], o, t)

\* loop = LoopingCall(...); loop.start(interval) calls at once
LoopStart(o, t) ==
    LoopCall([running |-> TRUE, call |-> NoCall, inflight |-> FALSE,
              started |-> "pending", starttime |-> t, reqFailed |-> FALSE], o, t)

\* --------------------------------------------------------------- scenario
\* mutant: the sample is recorded when the request is issued
request_and_measure_on_issue(m, o, t) == IF o # "fail" THEN new_sample(m, t) ELSE m

\* _request_and_measure: list_nodes() then addCallback(_sample_and_return)
request_and_measure(m, o, t) == IF o = "ok" THEN new_sample(m, t) ELSE m

\* the requests of loops k..Len(outs), issued one after the other at tick t
RECURSIVE MeasureFrom(_, _, _, _)
MeasureFrom(m, outs, k, t) ==
    IF k > Len(outs) THEN m
    ELSE MeasureFrom(request_and_measure(m, outs[k], t), outs, k + 1, t)

\* mutant: one loop per request per second, whatever the interval
NumLoops_rate_only == request_rate

NumLoops == request_rate * interval

\* LoadGenerator.start
LoadGeneratorStart(outs, t) == [k \in 1..NumLoops |-> LoopStart(outs[k], t)]

\* loop_until(reactor, predicate): the tick of the next check after a
\* check at tick t that found the predicate false
loop_until_next(t) == t + PollStep

\* timeout(self.reactor, waiting_for_target_rate, self.timeout): the tick
\* at which the wait started at tick t is cancelled
\* mutant: the interval is passed where the timeout is meant
TimeoutAt_interval(t) == t + interval * TicksPerSecond

TimeoutAt(t) == t + timeout * TicksPerSecond

\* mutant: the target must be exceeded, not only met
reached_target_rate_gt(m) == FloatGT(rate(m), request_rate)

reached_target_rate(m) == FloatGE(rate(m), request_rate)

\* mutant: a rate equal to the target counts as collapsed
scenario_collapsed_le(m) == FloatLE(rate(m), request_rate)

scenario_collapsed(m) == FloatLT(rate(m), request_rate)

\* mutant: the cancellation is passed on as it is
handle_timeout_passthrough(failure) == failure

\* failure.trap(CancelledError); raise RequestRateNotReached
handle_timeout(failure) ==
    IF failure = "CancelledError" THEN "RequestRateNotReached" ELSE failure

Pending == [state |-> "pending", error |-> "none", rate |-> NaN]

RequestRateTooLow(r) == [error |-> "RequestRateTooLow", rate |-> r]

\* Deferred.errback(exception)
errback(e) == [state |-> "failure", error |-> e.error, rate |-> e.rate]

\* mutant: the monitor resolves the signal with callback()
MonitorFired_callback(m) ==
    [state |-> "success", error |-> "none", rate |-> rate(m)]

\* the callback added to scenario_monitor
MonitorFired(m) == errback(RequestRateTooLow(rate(m)))

\* what the callbacks of waiting_for_target_rate leave behind when it fires
\* with success: abort_timeout cancels the delayed timeout, handle_timeout
\* is skipped, monitor_scenario_status starts the monitor, whose first
\* check runs at once
Establish(m) ==
    /\ waiting' = "success"
    /\ pollCall' = NoCall
    /\ timeoutCall' = NoCall
    /\ IF scenario_collapsed(m)
       THEN /\ maintained_d' = MonitorFired(m)
            /\ monitorCall' = NoCall
       ELSE /\ maintained_d' = maintained_d
            /\ monitorCall' = loop_until_next(now)

\* number of new_sample() calls made for a request with outcome o
Sampled(m, o, t) == IF request_and_measure(m, o, t) = m THEN 0 ELSE 1

RECURSIVE SampledFrom(_, _, _, _)
SampledFrom(m, outs, k, t) ==
    IF k > Len(outs) THEN 0
    ELSE Sampled(m, outs[k], t)
         + SampledFrom(request_and_measure(m, outs[k], t), outs, k + 1, t)

SettledIn(outs) == Cardinality({k \in DOMAIN outs : outs[k] # "pend"})

\* requests among outs that fail or stay pending when issued
Faults(outs) == Cardinality({k \in DOMAIN outs : outs[k] # "ok"})

\* history after a step in which the requests outs were issued or settled:
\* unsampled is the number of requests settled so far less the number of
\* new_sample() calls made so far; quiet says that no request has settled
\* since the monitor's last check (FALSE while no monitor is polling)
Record(m, outs) ==
    [hist EXCEPT !.unsampled = @ + SettledIn(outs) - SampledFrom(m, outs, 1, now),
                 !.everSettled = @ \/ SettledIn(outs) > 0,
                 !.faults = @ + Faults(outs),
                 !.quiet = @ /\ SettledIn(outs) = 0]

\* history after a step in which the monitor was started or has checked
Checked(h, call) == [h EXCEPT !.quiet = (call # NoCall)]

\* ---------------------------------------------------------------- actions
\* the constructor's arguments explored: <<request_rate, interval>>, and
\* timeouts at and just after the moment the window can first be full
Configs == {<<1, 1>>, <<2, 1>>, <<1, 2>>}

Timeouts(i) == {DEFAULT_SAMPLE_SIZE * i, DEFAULT_SAMPLE_SIZE * i + 1}

\* the state after construction at tick 0
Constructed ==
    /\ now = 0
    /\ rate_measurer = RateMeasurerInit(0)
    /\ loops = <<>>
    /\ started = FALSE
    /\ waiting = "none"
    /\ pollCall = NoCall
    /\ timeoutCall = NoCall
    /\ monitorCall = NoCall
    /\ maintained_d = Pending
    /\ stopResult = "none"
    /\ hist = [unsampled |-> 0, everSettled |-> FALSE, faults |-> 0,
               stopPhase |-> "none", quiet |-> FALSE]

Init ==
    /\ \E c \in Configs : request_rate = c[1] /\ interval = c[2]
    /\ timeout \in Timeouts(interval)
    /\ budget = MaxFaults
    /\ Constructed

\* three loops, one more request that may fail or stay pending
InitThreeLoops ==
    /\ request_rate = 3
    /\ interval = 1
    /\ timeout = DEFAULT_SAMPLE_SIZE * interval + 1
    /\ budget = MaxFaults + 1
    /\ Constructed

\* ReadRequestLoadScenario.start
start(outs) ==
    /\ ~started
    /\ now <= MaxStartDelay
    /\ Faults(outs) <= budget
    /\ started' = TRUE
    /\ loops' = LoadGeneratorStart(outs, now)
    /\ rate_measurer' = MeasureFrom(rate_measurer, outs, 1, now)
    /\ IF reached_target_rate(rate_measurer')
       THEN Establish(rate_measurer')
       ELSE /\ waiting' = "pending"
            /\ pollCall' = loop_until_next(now)
            /\ timeoutCall' = TimeoutAt(now)
            /\ UNCHANGED <<monitorCall, maintained_d>>
    /\ hist' = Checked(Record(rate_measurer, outs), monitorCall')
    /\ UNCHANGED <<config, now, stopResult>>

\* a LoopingCall's delayed call runs: the loop issues its next request
LoopTick(k, o) ==
    /\ k \in DOMAIN loops
    /\ loops[k].call = now
    /\ hist.faults + Faults(<<o>>) <= budget
    /\ loops' = [loops EXCEPT ![k] = LoopCall(@, o, now)]
    /\ rate_measurer' = request_and_measure(rate_measurer, o, now)
    /\ hist' = Record(rate_measurer, <<o>>)
    /\ UNCHANGED <<config, now, started, waiting, pollCall, timeoutCall,
                   monitorCall, maintained_d, stopResult>>

\* a pending request settles, with success or with failure
Complete(k, o) ==
    /\ k \in DOMAIN loops
    /\ loops[k].inflight
    /\ o \in {"ok", "fail"}
    /\ loops' = [loops EXCEPT ![k] = LoopSettle(@, o, now)]
    /\ rate_measurer' = request_and_measure(rate_measurer, o, now)
    /\ hist' = [Record(rate_measurer, <<o>>) EXCEPT !.faults = hist.faults]
    /\ UNCHANGED <<config, now, started, waiting, pollCall, timeoutCall,
                   monitorCall, maintained_d, stopResult>>

\* loop_until(reactor, reached_target_rate): one iteration
PollReached ==
    /\ pollCall = now
    /\ IF reached_target_rate(rate_measurer)
       THEN Establish(rate_measurer)
       ELSE /\ pollCall' = loop_until_next(now)
            /\ UNCHANGED <<waiting, timeoutCall, monitorCall, maintained_d>>
    /\ hist' = Checked(hist, monitorCall')
    /\ UNCHANGED <<config, now, rate_measurer, loops, started, stopResult>>

\* mutant: the monitor is started whatever the outcome of the wait
Timeout_starts_monitor ==
    /\ timeoutCall = now
    /\ waiting' = handle_timeout("CancelledError")
    /\ pollCall' = NoCall
    /\ timeoutCall' = NoCall
    /\ monitorCall' = loop_until_next(now)
    /\ UNCHANGED <<hist, config, now, rate_measurer, loops, started,
                   maintained_d, stopResult>>

\* mutant: the cancellation of the wait also stops the generator's loops
Timeout_stops_loops ==
    /\ timeoutCall = now
    /\ waiting' = handle_timeout("CancelledError")
    /\ pollCall' = NoCall
    /\ timeoutCall' = NoCall
    /\ loops' = [k \in DOMAIN loops |->
                    [loops[k] EXCEPT !.running = FALSE, !.call = NoCall]]
    /\ UNCHANGED <<hist, config, now, rate_measurer, started, monitorCall,
                   maintained_d, stopResult>>

\* timeout(reactor, waiting_for_target_rate, self.timeout): the delayed
\* call cancels the wait, whose CancelledError reaches handle_timeout
Timeout ==
    /\ timeoutCall = now
    /\ waiting' = handle_timeout("CancelledError")
    /\ pollCall' = NoCall
    /\ timeoutCall' = NoCall
    /\ UNCHANGED <<hist, config, now, rate_measurer, loops, started, monitorCall,
                   maintained_d, stopResult>>

\* loop_until(reactor, scenario_collapsed): one iteration
MonitorPoll ==
    /\ monitorCall = now
    /\ IF scenario_collapsed(rate_measurer)
       THEN /\ maintained_d' = MonitorFired(rate_measurer)
            /\ monitorCall' = NoCall
       ELSE /\ maintained_d' = maintained_d
            /\ monitorCall' = loop_until_next(now)
    /\ hist' = Checked(hist, monitorCall')
    /\ UNCHANGED <<config, now, rate_measurer, loops, started, waiting,
                   pollCall, timeoutCall, stopResult>>

\* ReadRequestLoadScenario.maintained
maintained ==
    /\ UNCHANGED <<hist, config, now, rate_measurer, loops, started, waiting,
                   pollCall, timeoutCall, monitorCall, maintained_d,
                   stopResult>>

\* LoopingCall.stop on a running loop
LoopStop(l) ==
    IF l.call # NoCall
    THEN [l EXCEPT !.running = FALSE, !.call = NoCall, !.started = "ok"]
    ELSE [l EXCEPT !.running = FALSE]

\* the first loop whose stop() fails its assert self.running
FirstNotRunning(ls) ==
    IF \E k \in DOMAIN ls : ~ls[k].running
    THEN CHOOSE k \in DOMAIN ls :
            /\ ~ls[k].running
            /\ \A j \in 1..(k - 1) : ls[j].running
    ELSE Len(ls) + 1

\* LoadGenerator.stop: the loops are stopped in order, up to the first
\* whose stop() raises
LoadGeneratorStop(ls) ==
    [k \in DOMAIN ls |-> IF k < FirstNotRunning(ls) THEN LoopStop(ls[k]) ELSE ls[k]]

\* ReadRequestLoadScenario.stop
stop ==
    /\ started
    /\ stopResult = "none"
    /\ loops' = LoadGeneratorStop(loops)
    /\ stopResult' = IF FirstNotRunning(loops) <= Len(loops)
                     THEN "AssertionError" ELSE "returned"
    /\ hist' = [hist EXCEPT !.stopPhase = waiting]
    /\ UNCHANGED <<config, now, rate_measurer, started, waiting, pollCall,
                   timeoutCall, monitorCall, maintained_d>>

\* gather_deferreds(self._starts), the signal stop() returns
StopSignal ==
    IF stopResult # "returned" THEN "none"
    ELSE IF \E k \in DOMAIN loops : loops[k].started = "pending" THEN "pending"
    ELSE IF \E k \in DOMAIN loops : loops[k].started = "failed" THEN "failure"
    ELSE "success"

Horizon == (DEFAULT_SAMPLE_SIZE * interval + ExtraSeconds) * TicksPerSecond

\* some delayed call is due at the current tick
CallDue ==
    \/ pollCall = now
    \/ timeoutCall = now
    \/ monitorCall = now
    \/ \E k \in DOMAIN loops : loops[k].call = now

\* the reactor's clock moves on once every call due has run
Tick ==
    /\ now < Horizon
    /\ ~CallDue
    /\ now' = now + 1
    /\ UNCHANGED <<hist, config, rate_measurer, loops, started, waiting, pollCall,
                   timeoutCall, monitorCall, maintained_d, stopResult>>

Next ==
    \/ \E outs \in [1..NumLoops -> Outcomes] : start(outs)
    \/ \E k \in DOMAIN loops, o \in Outcomes : LoopTick(k, o)
    \/ \E k \in DOMAIN loops, o \in {"ok", "fail"} : Complete(k, o)
    \/ PollReached
    \/ Timeout
    \/ MonitorPoll
    \/ maintained
    \/ stop
    \/ Tick

Spec == Init /\ [][Next]_vars

SpecThreeLoops == InitThreeLoops /\ [][Next]_vars

\* ------------------------------------------------- a RateMeasurer alone
\* A RateMeasurer constructed at tick 0..TicksPerSecond on a clock of its
\* own, with new_sample() called at any tick; here hist records the second
\* of construction and the number of new_sample() calls made in each
\* second of the clock.
InitMeasurer ==
    /\ now \in 0..TicksPerSecond
    /\ rate_measurer = RateMeasurerInit(now)
    /\ hist = [born |-> Seconds(now),
               perSecond |-> [sec \in 0..MeasurerSeconds |-> 0]]
    /\ request_rate = 1
    /\ interval = 1
    /\ timeout = DEFAULT_SAMPLE_SIZE
    /\ budget = 0
    /\ loops = <<>>
    /\ started = FALSE
    /\ waiting = "none"
    /\ pollCall = NoCall
    /\ timeoutCall = NoCall
    /\ monitorCall = NoCall
    /\ maintained_d = Pending
    /\ stopResult = "none"

\* RateMeasurer.new_sample() is called
RateMeasurerSample ==
    /\ hist.perSecond[Seconds(now)] < MaxPerSecond
    /\ rate_measurer' = new_sample(rate_measurer, now)
    /\ hist' = [hist EXCEPT !.perSecond[Seconds(now)] = @ + 1]
    /\ UNCHANGED <<config, now, loops, started, waiting, pollCall, timeoutCall,
                   monitorCall, maintained_d, stopResult>>

\* the clock moves on by d ticks, by up to two seconds at once
ClockAdvance(d) ==
    /\ Seconds(now + d) <= MeasurerSeconds
    /\ now' = now + d
    /\ UNCHANGED <<hist, config, rate_measurer, loops, started, waiting,
                   pollCall, timeoutCall, monitorCall, maintained_d, stopResult>>

NextMeasurer ==
    \/ RateMeasurerSample
    \/ \E d \in 1..(2 * TicksPerSecond) : ClockAdvance(d)

SpecMeasurer == InitMeasurer /\ [][NextMeasurer]_vars

\* ------------------------------------------------------------- properties
StartTime == loops[1].starttime

\* every request issued so far succeeded at once, and stop() was not called
AllInstant == started /\ hist.faults = 0 /\ stopResult = "none"

\* the window can be full, with requests completing at once, before the
\* timeout expires
Achievable == timeout > DEFAULT_SAMPLE_SIZE * interval

\* the tick by which the window is full when every request succeeds at once
FullAt == StartTime + DEFAULT_SAMPLE_SIZE * IntervalTicks

\* C1: with every request succeeding at once and the target achievable
\* within the timeout, start() never fails, it succeeds only with
\* rate() >= the target, and it has succeeded one poll after the window
\* is full
C1_StartSucceeds ==
    (AllInstant /\ Achievable) =>
        /\ waiting \in {"pending", "success"}
        /\ (waiting = "success" => reached_target_rate(rate_measurer))
        /\ (waiting = "pending" => now <= FullAt + PollStep)
        /\ (waiting = "pending" /\ reached_target_rate(rate_measurer)
               => pollCall \in {now, now + PollStep})

C1_Witness ==
    AllInstant /\ Achievable /\ waiting = "success" /\ now > FullAt

\* no request has ever completed
Stalled == started /\ ~hist.everSettled

\* C2: when no request completes, start() fails with RequestRateNotReached
\* exactly when the timeout expires: it is pending up to that tick and has
\* failed at no earlier tick
C2_StallTimesOut ==
    Stalled =>
        /\ waiting \in {"pending", "RequestRateNotReached"}
        /\ (waiting = "pending" => now <= StartTime + timeout * TicksPerSecond)
        /\ (waiting = "RequestRateNotReached"
               => now >= StartTime + timeout * TicksPerSecond)

C2_Witness ==
    Stalled /\ waiting = "RequestRateNotReached"
            /\ now > StartTime + timeout * TicksPerSecond

\* C3: the result of start() is only ever success or RequestRateNotReached,
\* never the cancellation itself
C3_NoCancelledError ==
    waiting \in {"none", "pending", "success", "RequestRateNotReached"}

C3_Witness == waiting = "RequestRateNotReached" /\ hist.everSettled

\* C5: the maintained() signal is pending or failed, never succeeded
C5_MaintainedNeverSucceeds ==
    /\ maintained_d.state \in {"pending", "failure"}
    /\ (maintained_d.state = "failure" => maintained_d.error = "RequestRateTooLow")

C5_Witness == maintained_d.state = "failure" /\ stopResult = "none"

\* start() has succeeded, the rate is below the target and maintained()
\* has not been resolved
Collapsing ==
    /\ waiting = "success"
    /\ scenario_collapsed(rate_measurer)
    /\ maintained_d.state = "pending"

\* the step is a check of the monitor: its delayed call was due and ran
MonitorChecks == monitorCall = now /\ monitorCall' # monitorCall

\* C4 as claimed: once start() has succeeded and the rate is below the
\* target, it stays below the target until maintained() has failed, so
\* that no drop of the rate goes unreported
C4_EveryDropReported ==
    [][Collapsing => (Collapsing' \/ maintained_d'.state = "failure")]_vars

\* C4 as amended: once start() has succeeded and while maintained() is
\* pending, a check of the monitor is due within one poll step; a check
\* that finds the rate below the target fails maintained(); and
\* maintained() fails only after start() succeeded, with RequestRateTooLow
\* carrying the rate measured at that check, a value below the target
C4_CollapseReported ==
    [][/\ (waiting' = "success" /\ maintained_d'.state = "pending")
             => monitorCall' \in {now', now' + PollStep}
       /\ (MonitorChecks /\ scenario_collapsed(rate_measurer))
             => maintained_d'.state = "failure"
       /\ (maintained_d.state = "pending" /\ maintained_d'.state = "failure")
             => /\ waiting' = "success"
                /\ maintained_d'.error = "RequestRateTooLow"
                /\ maintained_d'.rate = rate(rate_measurer)
                /\ FloatLT(maintained_d'.rate, request_rate)]_vars

C4_Witness ==
    /\ waiting = "success"
    /\ maintained_d.state = "failure"
    /\ FloatLT(maintained_d.rate, request_rate)
    /\ FloatLT(rate(rate_measurer), request_rate)

\* every timer is cancelled: no loop is running or has a call scheduled
AllCancelled ==
    \A k \in DOMAIN loops : ~loops[k].running /\ loops[k].call = NoCall

\* C6: after a stop() called once start() had succeeded, every timer is
\* cancelled, and once the signal stop() returned has resolved no
\* new_sample() call is made
C6_StopQuiesces ==
    [][hist'.stopPhase = "success"
         => /\ AllCancelled'
            /\ StopSignal \in {"success", "failure"}
                  => rate_measurer' = rate_measurer]_vars

\* C7: once stop() has been called, the maintained() signal is not resolved
C7_MonitorSilentAfterStop ==
    [][stopResult # "none" => maintained_d' = maintained_d]_vars

\* C8: a stop() called while start() is still pending cancels every timer,
\* does not raise, and its signal does not fail
C8_StopWhileRampingUp ==
    hist.stopPhase = "pending"
        => /\ stopResult = "returned"
           /\ AllCancelled
           /\ StopSignal # "failure"

\* C9: a loop one of whose requests failed keeps running until stop() is
\* called, and the failure does not reach the signal of the loop
C9_FailedRequestKeepsTimer ==
    \A k \in DOMAIN loops :
        loops[k].reqFailed
            => /\ loops[k].started # "failed"
               /\ stopResult = "none" => loops[k].running

\* C10: every settled request has made exactly one new_sample() call
C10_OneSamplePerSettle == hist.unsampled = 0

\* the step in which the timeout cancels the wait and start() fails
TimesOut == waiting = "pending" /\ waiting' = "RequestRateNotReached"

\* loop k is alive: it is running and either waits for its request to
\* settle or has its next call scheduled within one interval
KeepsIssuing(k) ==
    /\ loops[k].running
    /\ \/ loops[k].inflight /\ loops[k].call = NoCall
       \/ ~loops[k].inflight /\ loops[k].call \in now..(now + IntervalTicks)

SampledSeconds == {sec \in DOMAIN hist.perSecond : hist.perSecond[sec] > 0}

\* C12: as long as new_sample() has been called in fewer than
\* DEFAULT_SAMPLE_SIZE distinct seconds, rate() is nan
C12_NanBeforeWindowFull ==
    Cardinality(SampledSeconds) < DEFAULT_SAMPLE_SIZE
        => rate(rate_measurer) = NaN

\* samples in four distinct seconds spread over more than five seconds
C12_Witness ==
    /\ Cardinality(SampledSeconds) = DEFAULT_SAMPLE_SIZE - 1
    /\ Len(rate_measurer.counts) = DEFAULT_SAMPLE_SIZE - 1
    /\ Seconds(now) - hist.born > DEFAULT_SAMPLE_SIZE
    /\ rate(rate_measurer) = NaN

Max(S) == CHOOSE x \in S : \A y \in S : y <= x

Min(S) == CHOOSE x \in S : \A y \in S : x <= y

\* the n largest members of S
RECURSIVE Recent(_, _)
Recent(S, n) ==
    IF n = 0 \/ S = {} THEN {} ELSE {Max(S)} \cup Recent(S \ {Max(S)}, n - 1)

\* the numbers of samples of the seconds S, oldest second first
RECURSIVE CountsOf(_)
CountsOf(S) ==
    IF S = {} THEN <<>>
    ELSE <<hist.perSecond[Min(S)]>> \o CountsOf(S \ {Min(S)})

MeanOf(cs) == [nan |-> FALSE, sum |-> Sum(cs), num |-> Len(cs)]

\* the seconds with samples that have elapsed
ElapsedSampled == {sec \in SampledSeconds : sec < Seconds(now)}

\* C13 as claimed: once DEFAULT_SAMPLE_SIZE seconds with samples have
\* elapsed, rate() is the mean of the numbers of samples of the most
\* recent DEFAULT_SAMPLE_SIZE of them
C13_MeanOfRecentSeconds ==
    Cardinality(ElapsedSampled) >= DEFAULT_SAMPLE_SIZE
        => rate(rate_measurer)
              = MeanOf(CountsOf(Recent(ElapsedSampled, DEFAULT_SAMPLE_SIZE)))

\* the seconds whose count is in the window or was evicted from it: the
\* second of construction and the seconds with samples, up to the second
\* of the latest new_sample() call, which is still being counted
FlushedSeconds ==
    IF SampledSeconds = {} THEN {}
    ELSE {sec \in SampledSeconds \cup {hist.born} : sec < Max(SampledSeconds)}

\* C13 as amended: the window holds the numbers of samples of the most
\* recent DEFAULT_SAMPLE_SIZE flushed seconds, oldest first, so that each
\* flush evicts the oldest count; the second in progress is counted apart;
\* and rate() is the mean of the window once DEFAULT_SAMPLE_SIZE seconds
\* have been flushed and nan before
C13_WindowOfFlushedSeconds ==
    /\ rate_measurer.counts
          = CountsOf(Recent(FlushedSeconds, DEFAULT_SAMPLE_SIZE))
    /\ SampledSeconds # {}
          => rate_measurer.count = hist.perSecond[Max(SampledSeconds)]
    /\ rate(rate_measurer)
          = IF Cardinality(FlushedSeconds) >= DEFAULT_SAMPLE_SIZE
            THEN MeanOf(CountsOf(Recent(FlushedSeconds, DEFAULT_SAMPLE_SIZE)))
            ELSE NaN

\* the window has slid: more seconds were flushed than it holds, and the
\* evicted one had a count of its own
C13_Witness ==
    /\ Cardinality(FlushedSeconds) > DEFAULT_SAMPLE_SIZE
    /\ rate(rate_measurer) # NaN
    /\ hist.perSecond[Min(FlushedSeconds)] # hist.perSecond[Max(FlushedSeconds)]

\* C18: the window never holds more than DEFAULT_SAMPLE_SIZE counts, and
\* rate() is a number exactly when it holds that many
C18_WindowBounded ==
    /\ Len(rate_measurer.counts) <= DEFAULT_SAMPLE_SIZE
    /\ rate(rate_measurer) # NaN
          <=> Len(rate_measurer.counts) = DEFAULT_SAMPLE_SIZE

\* a full window after a count has been evicted from it
C18_Witness ==
    /\ Len(rate_measurer.counts) = DEFAULT_SAMPLE_SIZE
    /\ Cardinality(FlushedSeconds) = DEFAULT_SAMPLE_SIZE + 2
    /\ rate(rate_measurer) # NaN

\* the number of requests loop l has issued when each of them was answered
\* at once: one at its start and one at each later multiple of the interval
IssuedBy(l) == (l.call - l.starttime) \div IntervalTicks

\* the number of new_sample() calls made, as long as no count was evicted
TotalSamples(m) == Sum(m.counts) + m.count

\* C14: start() creates request_rate * interval loops; while every request
\* is answered at once each loop is running with its next call due at the
\* next multiple of the interval after the common start, within one
\* interval from now; and the requests answered so far are one per loop
\* and per interval begun
C14_LoopsPerInterval ==
    AllInstant =>
        /\ Len(loops) = request_rate * interval
        /\ \A k \in DOMAIN loops :
              /\ loops[k].running /\ ~loops[k].inflight
              /\ loops[k].starttime = StartTime
              /\ loops[k].call \in now..(now + IntervalTicks)
              /\ (loops[k].call - StartTime) % IntervalTicks = 0
        /\ Len(rate_measurer.counts) < DEFAULT_SAMPLE_SIZE
              => TotalSamples(rate_measurer)
                    = Sum([k \in DOMAIN loops |-> IssuedBy(loops[k])])

\* two loops that have each ticked once per second for four seconds
C14_Witness ==
    /\ AllInstant
    /\ request_rate = 2 /\ interval = 1
    /\ Len(loops) = 2
    /\ Len(rate_measurer.counts) < DEFAULT_SAMPLE_SIZE
    /\ TotalSamples(rate_measurer) = 8
    /\ \A k \in DOMAIN loops : loops[k].call = StartTime + 4 * IntervalTicks

\* C15: the result of start(), once decided, stays; and when every request
\* was answered at once, so that the rate reaches the target at the tick
\* FullAt, and the timeout expires at that same tick, start() does not
\* fail with RequestRateNotReached
C15_TieResolvesToSuccess ==
    [][/\ waiting \in {"success", "RequestRateNotReached"} => waiting' = waiting
       /\ (/\ AllInstant
           /\ waiting = "pending"
           /\ now = FullAt
           /\ timeoutCall = now
           /\ reached_target_rate(rate_measurer))
             => waiting' # "RequestRateNotReached"]_vars

\* C16: a stop() that was called has returned its signal and every timer
\* is cancelled; the signal resolves only when no request is in flight,
\* and it fails when a loop's signal failed
C16_StopAggregates ==
    stopResult # "none"
        => /\ stopResult = "returned"
           /\ AllCancelled
           /\ StopSignal \in {"success", "failure"}
                 => \A k \in DOMAIN loops : ~loops[k].inflight
           /\ (/\ \E k \in DOMAIN loops : loops[k].started = "failed"
               /\ \A k \in DOMAIN loops : loops[k].started # "pending")
                 => StopSignal = "failure"

\* C17: maintained() has failed only if start() succeeded; until start()
\* succeeds, and for good once it has failed, no monitor is polling and
\* maintained() is pending
C17_MonitorOnlyAfterSuccess ==
    /\ maintained_d.state = "failure" => waiting = "success"
    /\ waiting # "success" => maintained_d = Pending /\ monitorCall = NoCall

\* start() has failed and the rate has since become a number below the
\* target
C17_Witness ==
    /\ waiting = "RequestRateNotReached"
    /\ scenario_collapsed(rate_measurer)
    /\ now > StartTime + timeout * TicksPerSecond
    /\ maintained_d = Pending

C20_OneRequestInFlight ==
    /\ \A k \in DOMAIN loops : loops[k].inflight => loops[k].call = NoCall
    /\ Cardinality({k \in DOMAIN loops : loops[k].inflight})
          <= request_rate * interval
    /\ Stalled => /\ hist.faults = request_rate * interval
                  /\ \A k \in DOMAIN loops : loops[k].inflight

\* the only loop has been waiting for its first request for more than two
\* intervals, and the service could leave another request pending
C20_Witness ==
    /\ Stalled
    /\ hist.faults < budget
    /\ now > StartTime + 2 * IntervalTicks
    /\ \A k \in DOMAIN loops : loops[k].inflight

====
